---- MODULE Spec2Model ----
(***************************************************************************)
(* Tiered memory lifecycle engine of memoric: the storage connector, the   *)
(* PolicyExecutor (trim, migrate, summarize, thread aggregation, cluster   *)
(* rebuild), the ScoringEngine, the text processors and the scope-aware    *)
(* Retriever.                                                              *)
(*                                                                         *)
(* Time is counted in whole days.  A text is a sequence of one-character   *)
(* strings.  A row of the memories table is a record whose id is its       *)
(* position in the sequence `memories` (ids are assigned by autoincrement  *)
(* and rows are never deleted by this core); a SELECT without ORDER BY     *)
(* returns rows in id order.                                               *)
(***************************************************************************)
EXTENDS Integers, Sequences, FiniteSets, TLC

VARIABLES
    config,     \* the configuration the Memoric instance was built with
    backend,    \* engine.url.get_backend_name(): "postgresql" or "sqlite"
    now,        \* the clock (datetime.utcnow()), in days
    memories,   \* the rows of the memories table, by id
    clusters,   \* the rows of the memory_clusters table, by cluster_id
    last,       \* the last operation called and what it returned
    running,    \* the executions of run and of cluster_and_aggregate in flight:
                \* for each caller, its position and its local variables
    scored      \* the calls of ScoringEngine.compute made by clients so far:
                \* the arguments of each, what it returned and the clock then

vars == <<config, backend, now, memories, clusters, last, running, scored>>

----------------------------------------------------------------------------
(* Bounds of the model *)

MaxRecords == 2
MaxNow == 2
MaxSearchNow == 1
MaxClusters == 3
MaxThreadRecords == 12
MaxArchiveRecords == 22
MaxArchiveNow == 4
MaxRunRecords == 11
SmallFetchLimit == 1
MaxCalls == 3
MaxScoreTime == 3
MaxDecayDays == 2
MaxTextLen == 4
MaxTargetChars == 3
MaxTieringNow == 4

----------------------------------------------------------------------------
(* Values *)

None == "None"

Truthy(x) == x \notin {None, ""}

Users == {"u1", "u2"}
Threads == {"t1", "t2"}
Topics == {"refund", "Refund"}
Categories == {"support"}

SHORT_TEXT == <<"a", "b">>
LONG_TEXT == <<"a", " ", "c", ".", "e">>
Texts == {SHORT_TEXT, LONG_TEXT}

Min(a, b) == IF a <= b THEN a ELSE b
Max(a, b) == IF a >= b THEN a ELSE b

Take(s, n) == SubSeq(s, 1, Min(Len(s), Max(n, 0)))

----------------------------------------------------------------------------
(* Text processors: SimpleTrimmer and SimpleSummarizer *)

ELLIPSIS == "~"

RECURSIVE RStrip(_)
RStrip(s) ==
    IF s = <<>> THEN s
    ELSE IF s[Len(s)] \in {" ", "\n"} THEN RStrip(SubSeq(s, 1, Len(s) - 1))
    ELSE s

Trim(text, max_chars) ==
    IF max_chars <= 0 THEN <<>>
    ELSE IF Len(text) <= max_chars THEN text
    ELSE LET trimmed == RStrip(Take(text, Max(0, max_chars - 1)))
         IN  IF trimmed = <<>> THEN Take(text, max_chars)
             ELSE Append(trimmed, ELLIPSIS)

\* str.find("."): the 0-based index of the first period, -1 when there is none
Find(text, ch) ==
    IF \E i \in 1..Len(text) : text[i] = ch
    THEN (CHOOSE i \in 1..Len(text) :
              text[i] = ch /\ \A j \in 1..(i - 1) : text[j] # ch) - 1
    ELSE -1

Summarize(text, target_chars) ==
    IF target_chars <= 0 THEN <<>>
    ELSE IF Len(text) <= target_chars THEN text
    ELSE LET period == Find(text, ".")
         IN  IF 0 < period /\ period <= target_chars
             THEN Take(text, period + 1)
             ELSE Trim(text, target_chars)

----------------------------------------------------------------------------
(* Configuration *)

Tier(name, expiry_days, max_chars) ==
    [name |-> name, expiry_days |-> expiry_days, max_chars |-> max_chars]

ThreeTiers ==
    << Tier("short_term", 1, 3), Tier("mid_term", 1, 0), Tier("long_term", 1, 0) >>

\* weights in hundredths; the decay window in days
Scoring ==
    [importance_weight |-> 50, recency_weight |-> 30, repetition_weight |-> 20,
     decay_days |-> 3, custom_rules |-> <<>>]

\* fetch_limit is no key of the configuration: it is 0 except in the
\* configurations of a store scaled down below the fetch limit of run (see
\* FetchLimit)
Config(tiers, write_tier, enabled, thread_min) ==
    [ tiers |-> tiers,
      write_tier |-> write_tier,
      summarization |-> [enabled |-> enabled, min_chars |-> 4, target_chars |-> 3,
                         mark_summarized |-> TRUE, thread_min_records |-> thread_min],
      scoring |-> Scoring,
      default_top_k |-> 1,
      fetch_limit |-> 0 ]

Configs ==
    { Config(ThreeTiers, "short_term", FALSE, 10),
      Config(ThreeTiers, "mid_term", TRUE, 10),
      Config(ThreeTiers, "long_term", FALSE, 2) }

_get_tier_order ==
    SelectSeq([i \in 1..Len(config.tiers) |-> config.tiers[i].name], Truthy)

----------------------------------------------------------------------------
(* PostgresConnector: the memories table *)

Ids(mem) == [i \in 1..Len(mem) |-> i]

\* the metadata keys the core reads; None stands for a key that is absent
Metadata(kind, topic, category) == [kind |-> kind, topic |-> topic, category |-> category]

\* a row as insert_memory writes it: summarized and related_threads are left
\* NULL (a NULL summarized selects like 0, and is written here as 0)
Row(user_id, thread_id, content, tier, metadata, t) ==
    [ user_id |-> user_id, thread_id |-> thread_id, content |-> content,
      tier |-> tier, summarized |-> 0,
      metadata |-> metadata,
      related_threads |-> <<>>,
      updated_at |-> t ]

insert_memory(mem, user_id, content, thread_id, tier, metadata, t) ==
    Append(mem, Row(user_id, thread_id, content, tier, metadata, t))

\* a filter dict: a key mapped to None is a key the dict does not have
NoMetadata == [k \in {"kind", "topic"} |-> None]

HasKey(dict, k) == k \in DOMAIN dict /\ dict[k] # None

\* A filter that sets no condition; get_memories' keyword defaults
NoFilter ==
    [ user_id |-> None, thread_id |-> None, tier |-> None,
      where_metadata |-> NoMetadata,
      related_threads_any_of |-> <<>>, summarized |-> None ]

\* JSONB containment of the filter dict in the row's metadata
MetadataContains(metadata, where_metadata) ==
    \A k \in DOMAIN where_metadata :
        HasKey(where_metadata, k) => metadata[k] = where_metadata[k]

\* the condition on related_threads_any_of, which depends on the backend
RelatedThreadsCond(r, related, be) ==
    IF be = "postgresql"
    THEN \E i \in 1..Len(related) :
             \E j \in 1..Len(r.related_threads) : r.related_threads[j] = related[i]
    ELSE \E i \in 1..Len(related) : r.thread_id = related[i]

\* Matches without the condition on the summarized column
Matches_any_summarized(r, f, be) ==
    /\ Truthy(f.user_id) => r.user_id = f.user_id
    /\ Truthy(f.thread_id) => r.thread_id = f.thread_id
    /\ Truthy(f.tier) => r.tier = f.tier
    /\ (\E k \in DOMAIN f.where_metadata : HasKey(f.where_metadata, k)) =>
           MetadataContains(r.metadata, f.where_metadata)
    /\ f.related_threads_any_of # <<>> =>
           RelatedThreadsCond(r, f.related_threads_any_of, be)

\* Matches with the owner condition applied only when no thread is given
Matches_owner_or_thread(r, f, be) ==
    /\ (Truthy(f.user_id) /\ ~Truthy(f.thread_id)) => r.user_id = f.user_id
    /\ Truthy(f.thread_id) => r.thread_id = f.thread_id
    /\ Truthy(f.tier) => r.tier = f.tier
    /\ (\E k \in DOMAIN f.where_metadata : HasKey(f.where_metadata, k)) =>
           MetadataContains(r.metadata, f.where_metadata)
    /\ f.summarized # None =>
           IF f.summarized = "True" THEN r.summarized = 1 ELSE r.summarized = 0
    /\ f.related_threads_any_of # <<>> =>
           RelatedThreadsCond(r, f.related_threads_any_of, be)

Matches(r, f, be) ==
    /\ Truthy(f.user_id) => r.user_id = f.user_id
    /\ Truthy(f.thread_id) => r.thread_id = f.thread_id
    /\ Truthy(f.tier) => r.tier = f.tier
    /\ (\E k \in DOMAIN f.where_metadata : HasKey(f.where_metadata, k)) =>
           MetadataContains(r.metadata, f.where_metadata)
    /\ f.summarized # None =>
           IF f.summarized = "True" THEN r.summarized = 1 ELSE r.summarized = 0
    /\ f.related_threads_any_of # <<>> =>
           RelatedThreadsCond(r, f.related_threads_any_of, be)

Limit(rows, limit) == IF limit # 0 THEN Take(rows, limit) ELSE rows

\* the ids of the rows selected, in storage order
get_memories(mem, f, limit, be) ==
    Limit(SelectSeq(Ids(mem), LAMBDA i : Matches(mem[i], f, be)), limit)

\* update_tier that leaves updated_at as it was
update_tier_keeping_updated_at(mem, memory_ids, new_tier, t) ==
    [i \in 1..Len(mem) |->
        IF \E k \in 1..Len(memory_ids) : memory_ids[k] = i
        THEN [mem[i] EXCEPT !.tier = new_tier]
        ELSE mem[i]]

update_tier(mem, memory_ids, new_tier, t) ==
    [i \in 1..Len(mem) |->
        IF \E k \in 1..Len(memory_ids) : memory_ids[k] = i
        THEN [mem[i] EXCEPT !.tier = new_tier, !.updated_at = t]
        ELSE mem[i]]

mark_summarized(mem, memory_ids, t) ==
    [i \in 1..Len(mem) |->
        IF \E k \in 1..Len(memory_ids) : memory_ids[k] = i
        THEN [mem[i] EXCEPT !.summarized = 1, !.updated_at = t]
        ELSE mem[i]]

update_content(mem, memory_id, new_content, t) ==
    [i \in 1..Len(mem) |->
        IF i = memory_id
        THEN [mem[i] EXCEPT !.content = new_content, !.updated_at = t]
        ELSE mem[i]]

\* find_older_than with a cutoff one expiry period too early
find_older_than_late(mem, user_id, days, from_tier, limit, t) ==
    LET cutoff == t - days - days
    IN  Limit(SelectSeq(Ids(mem), LAMBDA i :
                  /\ mem[i].updated_at < cutoff
                  /\ Truthy(from_tier) => mem[i].tier = from_tier
                  /\ Truthy(user_id) => mem[i].user_id = user_id),
              limit)

\* the owner condition is the one get_memories and distinct_threads apply to
\* the user_id the executor passes
find_older_than(mem, user_id, days, from_tier, limit, t) ==
    LET cutoff == t - days
    IN  Limit(SelectSeq(Ids(mem), LAMBDA i :
                  /\ mem[i].updated_at < cutoff
                  /\ Truthy(from_tier) => mem[i].tier = from_tier
                  /\ Truthy(user_id) => mem[i].user_id = user_id),
              limit)

\* SELECT DISTINCT: the first occurrence of each value, in storage order
RECURSIVE Distinct(_)
Distinct(s) ==
    IF s = <<>> THEN <<>>
    ELSE LET init == Distinct(SubSeq(s, 1, Len(s) - 1))
             x == s[Len(s)]
         IN  IF \E i \in 1..Len(init) : init[i] = x THEN init ELSE Append(init, x)

ThreadIdsOf(mem, ids) == [k \in 1..Len(ids) |-> mem[ids[k]].thread_id]

distinct_threads(mem, user_id, tier, limit) ==
    LET rows == SelectSeq(Ids(mem), LAMBDA i :
                    /\ Truthy(user_id) => mem[i].user_id = user_id
                    /\ Truthy(tier) => mem[i].tier = tier)
    IN  SelectSeq(Limit(Distinct(ThreadIdsOf(mem, rows)), limit), Truthy)

link_threads_by_topic(mem, user_id, topic, limit) ==
    LET rows == SelectSeq(Ids(mem), LAMBDA i :
                    /\ mem[i].user_id = user_id
                    /\ mem[i].metadata.topic = topic)
    IN  SelectSeq(Limit(Distinct(ThreadIdsOf(mem, rows)), limit), Truthy)


(* PostgresConnector: the memory_clusters table *)

\* upsert_cluster inserts a row and returns its cluster_id.  The row records
\* the user_id the caller passes, which is part of the cluster's key.
upsert_cluster(cl, user_id, topic, category, memory_ids, summary) ==
    Append(cl, [cluster_id |-> Len(cl) + 1, user_id |-> user_id, topic |-> topic,
                category |-> category, memory_ids |-> memory_ids, summary |-> summary])

----------------------------------------------------------------------------
(* SimpleClustering *)

\* a metadata value that is JSON null (Python's None), as distinct from a key
\* that is absent (None in the model)
Null == "null"

\* str() of a metadata value: the text of a string is itself, str(None) is "None"
Str(x) == IF x = Null THEN "None" ELSE x

\* str.lower() on the topic and category values of the model
Lower(x) ==
    CASE x = "Refund" -> "refund"
      [] x = "None" -> "none"
      [] OTHER -> x

\* metadata.get(key, "general"): the default stands in only for an absent key
_key_from_metadata(metadata) ==
    << IF metadata.topic = None THEN "general" ELSE Lower(Str(metadata.topic)),
       IF metadata.category = None THEN "general" ELSE Lower(Str(metadata.category)) >>

\* buckets: the keys in the order of their first record, each with its ids
RECURSIVE GroupLoop(_, _, _, _)
GroupLoop(mem, rows, k, buckets) ==
    IF k > Len(rows) THEN buckets
    ELSE LET key == _key_from_metadata(mem[rows[k]].metadata)
             pos == { b \in 1..Len(buckets) : buckets[b].key = key }
         IN  IF pos = {}
             THEN GroupLoop(mem, rows, k + 1,
                            Append(buckets, [key |-> key, ids |-> <<rows[k]>>]))
             ELSE LET b == CHOOSE x \in pos : TRUE
                  IN  GroupLoop(mem, rows, k + 1,
                                [buckets EXCEPT ![b].ids = Append(@, rows[k])])

group(mem, rows) ==
    LET buckets == GroupLoop(mem, rows, 1, <<>>)
    IN  [b \in 1..Len(buckets) |->
            [topic |-> buckets[b].key[1], category |-> buckets[b].key[2],
             memory_ids |-> buckets[b].ids, summary |-> <<>>]]

----------------------------------------------------------------------------
(* PolicyExecutor *)

MIN_RECORDS_FOR_THREAD_SUMMARY == 10
THREAD_SUMMARY_MAX_CHARS == 1000
THREAD_SUMMARY_BATCH_SIZE == 200
POLICY_FETCH_LIMIT == 1000

\* The limit run passes to the fetches of its trim, migrate and summarize
\* steps: limit=1000.  The stores of the model hold a few rows; where the store
\* is to be larger than the limit, the limit is scaled down with the store.
FetchLimit ==
    IF config.fetch_limit > 0 THEN config.fetch_limit ELSE POLICY_FETCH_LIMIT

\* _next_tier taking the tier after the next one
_next_tier_skipping(name) ==
    LET order == _get_tier_order
    IN  IF order = <<>> \/ ~(\E i \in 1..Len(order) : order[i] = name)
        THEN None
        ELSE LET idx == CHOOSE i \in 1..Len(order) : order[i] = name
             IN  IF idx + 2 <= Len(order) THEN order[idx + 2] ELSE None

_next_tier(name) ==
    LET order == _get_tier_order
    IN  IF order = <<>> \/ ~(\E i \in 1..Len(order) : order[i] = name)
        THEN None
        ELSE LET idx == CHOOSE i \in 1..Len(order) :
                            order[i] = name /\ \A j \in 1..(i - 1) : order[j] # name
             IN  IF idx + 1 <= Len(order) THEN order[idx + 1] ELSE None

NewSummary ==
    [migrated |-> 0, summarized |-> 0, trimmed |-> 0, thread_summaries |-> 0,
     clusters |-> 0]

\* The steps of one run, in the order run executes them: trim and migrate for
\* each configured tier, then the global summarize pass, then thread aggregation
Steps ==
    [k \in 1..(2 * Len(config.tiers) + 2) |->
        IF k > 2 * Len(config.tiers)
        THEN [kind |-> IF k = 2 * Len(config.tiers) + 1 THEN "summarize" ELSE "thread",
              tier |-> 0]
        ELSE [kind |-> IF k % 2 = 1 THEN "trim" ELSE "migrate", tier |-> (k + 1) \div 2]]

\* the trim loop over the fetched rows (content as fetched)
RECURSIVE TrimLoop(_, _, _, _, _, _)
TrimLoop(st, snap, records, k, max_chars, t) ==
    IF k > Len(records) THEN st
    ELSE LET id == records[k]
             original == snap[id].content
             trimmed == Trim(original, max_chars)
         IN  IF trimmed # original
             THEN TrimLoop([st EXCEPT !.mem = update_content(st.mem, id, trimmed, t),
                                      !.summary.trimmed = @ + 1],
                           snap, records, k + 1, max_chars, t)
             ELSE TrimLoop(st, snap, records, k + 1, max_chars, t)

TrimStep(st, tier, user_id, t, be) ==
    IF tier.max_chars > 0
    THEN LET records == get_memories(st.mem,
                 [NoFilter EXCEPT !.user_id = user_id, !.tier = tier.name],
                 FetchLimit, be)
         IN  TrimLoop(st, st.mem, records, 1, tier.max_chars, t)
    ELSE st

MigrateStep(st, tier, user_id, t) ==
    IF tier.expiry_days > 0
    THEN LET older == find_older_than(st.mem, user_id, tier.expiry_days, tier.name,
                                      FetchLimit, t)
             target_tier == _next_tier(tier.name)
         IN  IF Truthy(target_tier) /\ older # <<>>
             THEN [st EXCEPT !.mem = update_tier(st.mem, older, target_tier, t),
                             !.summary.migrated = @ + Len(older)]
             ELSE st
    ELSE st

RECURSIVE SummarizeLoop(_, _, _, _, _, _)
SummarizeLoop(st, snap, records, k, cfg, t) ==
    IF k > Len(records) THEN st
    ELSE LET id == records[k]
             content == snap[id].content
             new_content == Summarize(content, cfg.target_chars)
         IN  IF Len(content) >= cfg.min_chars /\ new_content # content
             THEN LET updated == update_content(st.mem, id, new_content, t)
                      marked == IF cfg.mark_summarized
                                THEN mark_summarized(updated, <<id>>, t)
                                ELSE updated
                  IN  SummarizeLoop([st EXCEPT !.mem = marked,
                                               !.summary.summarized = @ + 1],
                                    snap, records, k + 1, cfg, t)
             ELSE SummarizeLoop(st, snap, records, k + 1, cfg, t)

SummarizeStep(st, user_id, t, be) ==
    IF config.summarization.enabled
    THEN LET records == get_memories(st.mem, [NoFilter EXCEPT !.user_id = user_id],
                                     FetchLimit, be)
         IN  SummarizeLoop(st, st.mem, records, 1, config.summarization, t)
    ELSE st

\* "\n".join of the contents of the rows
RECURSIVE JoinContents(_, _, _)
JoinContents(mem, records, k) ==
    IF k > Len(records) THEN <<>>
    ELSE IF k = Len(records) THEN mem[records[k]].content
    ELSE mem[records[k]].content \o <<"\n">> \o JoinContents(mem, records, k + 1)

RECURSIVE ThreadLoop(_, _, _, _, _)
ThreadLoop(st, threads, k, t, be) ==
    IF k > Len(threads) THEN st
    ELSE LET th == threads[k]
             records == get_memories(st.mem,
                 [NoFilter EXCEPT !.thread_id = th, !.tier = "long_term",
                                  !.summarized = "False"],
                 THREAD_SUMMARY_BATCH_SIZE, be)
             existing_summaries == get_memories(st.mem,
                 [NoFilter EXCEPT !.thread_id = th, !.tier = "long_term",
                                  !.where_metadata.kind = "thread_summary"],
                 1, be)
             summary_text == Summarize(JoinContents(st.mem, records, 1),
                                       THREAD_SUMMARY_MAX_CHARS)
             inserted ==
                 IF existing_summaries = <<>>
                 THEN [st EXCEPT
                          !.mem = insert_memory(st.mem, st.mem[records[1]].user_id,
                                      summary_text, th, "long_term",
                                      Metadata("thread_summary", None, None), t),
                          !.summary.thread_summaries = @ + 1]
                 ELSE st
         IN  IF Len(records) >= MIN_RECORDS_FOR_THREAD_SUMMARY
             THEN ThreadLoop([inserted EXCEPT
                                 !.mem = mark_summarized(inserted.mem, records, t)],
                             threads, k + 1, t, be)
             ELSE ThreadLoop(st, threads, k + 1, t, be)

ThreadStep(st, user_id, t, be) ==
    ThreadLoop(st, distinct_threads(st.mem, user_id, "long_term", POLICY_FETCH_LIMIT),
               1, t, be)

\* whether the step calls the storage or a text processor at all
StepCalls(step) ==
    CASE step.kind = "trim" -> config.tiers[step.tier].max_chars > 0
      [] step.kind = "migrate" -> config.tiers[step.tier].expiry_days > 0
      [] step.kind = "summarize" -> config.summarization.enabled
      [] OTHER -> TRUE

\* One step of run.  run has no try/except: when a call of the step raises, the
\* exception leaves run, which executes nothing more and returns nothing.
ExecStep(st, k, fault, user_id, t, be) ==
    LET step == Steps[k] IN
    IF st.raised THEN st
    ELSE IF fault = k /\ StepCalls(step) THEN [st EXCEPT !.raised = TRUE]
    ELSE CASE step.kind = "trim" -> TrimStep(st, config.tiers[step.tier], user_id, t, be)
           [] step.kind = "migrate" -> MigrateStep(st, config.tiers[step.tier], user_id, t)
           [] step.kind = "summarize" -> SummarizeStep(st, user_id, t, be)
           [] OTHER -> ThreadStep(st, user_id, t, be)

RECURSIVE RunFrom(_, _, _, _, _, _)
RunFrom(st, k, fault, user_id, t, be) ==
    IF k > Len(Steps) THEN st
    ELSE \* the state after step k, computed once, is the state step k + 1 starts in
         CHOOSE final \in { RunFrom(after, k + 1, fault, user_id, t, be) :
                               after \in {ExecStep(st, k, fault, user_id, t, be)} } : TRUE

\* PolicyExecutor.run(user_id), with the call of step `fault` failing (0: none)
run(mem, user_id, fault, t, be) ==
    RunFrom([mem |-> mem, summary |-> NewSummary, raised |-> FALSE],
            1, fault, user_id, t, be)


RECURSIVE UpsertLoop(_, _, _, _)
UpsertLoop(st, drafts, k, user_id) ==
    IF k > Len(drafts) THEN st
    ELSE LET c == drafts[k]
             cl == upsert_cluster(st.cl, user_id, c.topic, c.category, c.memory_ids,
                                  c.summary)
             cid == cl[Len(cl)].cluster_id
         IN  UpsertLoop([cl |-> cl, created |-> IF cid # 0 THEN st.created + 1
                                                ELSE st.created],
                        drafts, k + 1, user_id)

\* PolicyExecutor.cluster_and_aggregate(user_id)
cluster_and_aggregate(mem, cl, user_id, be) ==
    LET rows == get_memories(mem, [NoFilter EXCEPT !.user_id = user_id],
                             POLICY_FETCH_LIMIT, be)
    IN  UpsertLoop([cl |-> cl, created |-> 0], group(mem, rows), 1, user_id)

----------------------------------------------------------------------------
(* ScoringEngine *)

Clamp(v, lo, hi) == Max(Min(v, hi), lo)

\* round() of num/den for den > 0: to the nearest integer, ties to the even one
Round(num, den) ==
    LET q == num \div den
        r == num % den
    IN  IF 2 * r < den THEN q
        ELSE IF 2 * r > den THEN q + 1
        ELSE IF q % 2 = 0 THEN q ELSE q + 1

ImportanceLevel(text) ==
    CASE text = "low" -> 3
      [] text = "medium" -> 5
      [] text = "high" -> 8
      [] text = "critical" -> 10
      [] OTHER -> 5

\* a custom rule, by what a call of it does: it raises, or returns a bonus (in
\* points of the score)
Rule(raises, bonus) == [raises |-> raises, bonus |-> bonus]

\* the loop over custom_rules: a rule that raises is skipped
RECURSIVE Bonus(_)
Bonus(rules) ==
    IF rules = <<>> THEN 0
    ELSE (IF Head(rules).raises THEN 0 ELSE Head(rules).bonus) + Bonus(Tail(rules))

\* age_seconds, in days
Age(r, t) == Max(t - r.updated_at, 0)

\* the denominator of recency_norm: the decay window, or 1 when it is empty
Decay(cfg) == IF cfg.decay_days > 0 THEN cfg.decay_days ELSE 1

\* recency_norm = 1.0 - _normalize(age_seconds, 0.0, decay window), as the
\* fraction <<numerator, denominator>>; _normalize returns 0 when
\* max_value <= min_value
recency_norm(r, cfg, t) ==
    << Decay(cfg) - (IF cfg.decay_days > 0 THEN Clamp(Age(r, t), 0, cfg.decay_days) ELSE 0),
       Decay(cfg) >>

\* base_score = max(0.0, min(1.0, combined)) * 100.0 as a fraction of the
\* denominator 200 * Decay(cfg), to which the three terms are brought
Den(cfg) == 200 * Decay(cfg)

BaseNum(r, cfg, t) ==
    LET meta == r.metadata
        importance_level ==
            ImportanceLevel(IF "importance" \in DOMAIN meta THEN meta.importance
                            ELSE "medium")
        seen_count == IF "seen_count" \in DOMAIN meta THEN meta.seen_count ELSE 1
        num == cfg.importance_weight * Clamp(importance_level, 0, 10) * 20 * Decay(cfg)
               + cfg.recency_weight * recency_norm(r, cfg, t)[1] * 200
               + cfg.repetition_weight * (20 - Clamp(seen_count, 0, 20)) * 10 * Decay(cfg)
    IN  Clamp(num, 0, 100 * Den(cfg))

\* compute without the clamp of base_score + bonus to [0, 100]
compute_unclamped(r, cfg, t) ==
    Round(BaseNum(r, cfg, t) + Bonus(cfg.custom_rules) * Den(cfg), Den(cfg))

\* compute with the clock read in place of the reference time it is given
compute_wallclock(r, cfg, t) ==
    Round(Clamp(BaseNum(r, cfg, now) + Bonus(cfg.custom_rules) * Den(cfg),
                0, 100 * Den(cfg)),
          Den(cfg))

\* ScoringEngine.compute(memory, now)
compute(r, cfg, t) ==
    Round(Clamp(BaseNum(r, cfg, t) + Bonus(cfg.custom_rules) * Den(cfg),
                0, 100 * Den(cfg)),
          Den(cfg))

----------------------------------------------------------------------------
(* Retriever *)

RETRIEVER_FETCH_LIMIT == 1000
LINK_THREADS_LIMIT == 100

\* list.sort(key=_score, reverse=True): stable, equal scores keep their order
RECURSIVE InsertByScore(_, _, _)
InsertByScore(sorted, x, score) ==
    IF sorted = <<>> THEN <<x>>
    ELSE IF score[Head(sorted)] >= score[x]
         THEN <<Head(sorted)>> \o InsertByScore(Tail(sorted), x, score)
         ELSE <<x>> \o sorted

RECURSIVE SortByScore(_, _)
SortByScore(rows, score) ==
    IF rows = <<>> THEN <<>>
    ELSE InsertByScore(SortByScore(SubSeq(rows, 1, Len(rows) - 1), score),
                       rows[Len(rows)], score)

\* ranked[:limit]; a negative limit counts from the end
Slice(rows, limit) ==
    IF limit >= 0 THEN Take(rows, limit) ELSE Take(rows, Len(rows) + limit)

\* top_k is <<k>>, or <<>> for the argument left out (None)
NoTopK == <<>>

\* the scope resolution of Retriever.search and its storage query: the
\* candidates, in the order storage returns them.  No branch raises: a scope
\* that is none of the four known ones changes no filter.
Candidates(mem, a, be) ==
    LET related_threads ==
            IF a.scope = "topic" /\ HasKey(a.metadata_filter, "topic")
                                 /\ Truthy(a.user_id)
            THEN link_threads_by_topic(mem, a.user_id, a.metadata_filter.topic,
                                       LINK_THREADS_LIMIT)
            ELSE <<>>
        user_id == IF a.scope = "global" THEN None ELSE a.user_id
        thread_id == IF a.scope \in {"user", "global"} THEN None ELSE a.thread_id
    IN  get_memories(mem,
            [ user_id |-> user_id, thread_id |-> thread_id, tier |-> None,
              where_metadata |-> a.metadata_filter,
              related_threads_any_of |-> related_threads,
              summarized |-> "False" ],
            RETRIEVER_FETCH_LIMIT, be)

\* Retriever.search: the candidates scored, sorted and cut to the limit
search(mem, a, cfg, t, be) ==
    LET records == Candidates(mem, a, be)
        score == [i \in 1..Len(mem) |-> compute(mem[i], cfg.scoring, t)]
        ranked == SortByScore(records, score)
        limit == IF a.top_k \in {NoTopK, <<0>>} THEN cfg.default_top_k ELSE a.top_k[1]
    IN  [raised |-> FALSE, results |-> Slice(ranked, limit)]

----------------------------------------------------------------------------
(* The operations *)

Backends == {"postgresql", "sqlite"}

\* the threads of the process that call run or cluster_and_aggregate at the
\* same time (a scheduler and an on-demand API call)
Callers == {1, 2}

\* a caller that is executing nothing, and the local variables of an execution
Idle ==
    [ pc |-> "idle", user_id |-> None, step |-> 0, summary |-> NewSummary,
      threads |-> <<>>, ti |-> 0, records |-> <<>>, owner |-> None,
      summary_text |-> <<>>, drafts |-> <<>>, di |-> 0, created |-> 0,
      target_tier |-> None,   \* target_tier of the migrate step in progress
      started |-> 0,          \* the clock when the execution was called
      moved |-> {} ]          \* the ids this execution has passed to update_tier

Init ==
    /\ config \in Configs
    /\ backend = "sqlite"
    /\ now = 0
    /\ memories = <<>>
    /\ clusters = <<>>
    /\ last = [op |-> "init"]
    /\ running = [p \in Callers |-> Idle]
    /\ scored = <<>>

\* the clock advances by a day
Tick(max) ==
    /\ now < max
    /\ now' = now + 1
    /\ last' = [op |-> "tick"]
    /\ UNCHANGED <<config, backend, memories, clusters, running, scored>>

\* Memoric.save: the row goes to the tier of the write policy; max is the
\* bound of the specification on the number of rows
SaveWithin(max, user_id, thread_id, content, topic, category) ==
    /\ Len(memories) < max
    /\ memories' = insert_memory(memories, user_id, content, thread_id,
                                 config.write_tier, Metadata(None, topic, category), now)
    /\ last' = [op |-> "save", id |-> Len(memories) + 1]
    /\ UNCHANGED <<config, backend, now, clusters, running, scored>>

Save(user_id, thread_id, content, topic, category) ==
    SaveWithin(MaxRecords, user_id, thread_id, content, topic, category)

\* PostgresConnector.mark_summarized called by a client
MarkSummarized(id) ==
    /\ id \in 1..Len(memories)
    /\ memories' = mark_summarized(memories, <<id>>, now)
    /\ last' = [op |-> "mark_summarized", id |-> id]
    /\ UNCHANGED <<config, backend, now, clusters, running, scored>>

\* Memoric.run_policies / PolicyExecutor.run
Run(user_id, fault) ==
    /\ fault # 0 => StepCalls(Steps[fault])
    /\ LET st == run(memories, user_id, fault, now, backend)
       IN  /\ memories' = st.mem
           /\ last' = [op |-> "run", user_id |-> user_id, fault |-> fault,
                       raised |-> st.raised, summary |-> st.summary]
    /\ UNCHANGED <<config, backend, now, clusters, running, scored>>


\* One caller's execution of PolicyExecutor.run, taken one storage call after
\* another in the thread aggregation step and one step after another before
\* it.  The rows a call returns are the caller's local variables; what it
\* computes from them (records[0]["user_id"], summary_text) is kept with them.
RunCall(p, user_id) ==
    /\ running[p].pc = "idle"
    /\ running' = [running EXCEPT
                      ![p] = [Idle EXCEPT !.pc = "step", !.user_id = user_id, !.step = 1,
                                          !.started = now]]
    /\ UNCHANGED <<config, backend, now, memories, clusters, last, scored>>

\* a trim step, a migrate step or the summarize pass
RunStep(p) ==
    LET me == running[p] IN
    /\ me.pc = "step"
    /\ Steps[me.step].kind # "thread"
    /\ LET st == ExecStep([mem |-> memories, summary |-> me.summary, raised |-> FALSE],
                          me.step, 0, me.user_id, now, backend)
       IN  /\ memories' = st.mem
           /\ running' = [running EXCEPT ![p].summary = st.summary, ![p].step = me.step + 1]
    /\ UNCHANGED <<config, backend, now, clusters, last, scored>>

\* a trim step or the summarize pass
RunTrimOrSummarize(p) ==
    /\ running[p].pc = "step"
    /\ Steps[running[p].step].kind # "migrate"
    /\ RunStep(p)

\* the first half of a migrate step: older = db.find_older_than(...) and
\* target_tier = self._next_tier(name), with the tests that lead to update_tier
RunFindOlder(p) ==
    LET me == running[p] IN
    /\ me.pc = "step"
    /\ Steps[me.step].kind = "migrate"
    /\ LET tier == config.tiers[Steps[me.step].tier]
           older == find_older_than(memories, me.user_id, tier.expiry_days, tier.name,
                                    FetchLimit, now)
           target_tier == _next_tier(tier.name)
       IN  running' =
              IF tier.expiry_days > 0 /\ Truthy(target_tier) /\ older # <<>>
              THEN [running EXCEPT ![p].pc = "update_tier", ![p].records = older,
                                   ![p].target_tier = target_tier]
              ELSE [running EXCEPT ![p].step = me.step + 1]
    /\ UNCHANGED <<config, backend, now, memories, clusters, last, scored>>

\* the second half: db.update_tier(memory_ids=moved_ids, new_tier=target_tier)
RunUpdateTier(p) ==
    LET me == running[p] IN
    /\ me.pc = "update_tier"
    /\ memories' = update_tier(memories, me.records, me.target_tier, now)
    /\ running' = [running EXCEPT
                      ![p].pc = "step", ![p].step = me.step + 1,
                      ![p].records = <<>>, ![p].target_tier = None,
                      ![p].summary.migrated = @ + Len(me.records),
                      ![p].moved = @ \cup { me.records[k] : k \in 1..Len(me.records) }]
    /\ UNCHANGED <<config, backend, now, clusters, last, scored>>

\* long_term_threads = db.distinct_threads(user_id, tier="long_term")
RunDistinctThreads(p) ==
    LET me == running[p] IN
    /\ me.pc = "step"
    /\ Steps[me.step].kind = "thread"
    /\ running' = [running EXCEPT
                      ![p].pc = "thread_records",
                      ![p].threads = distinct_threads(memories, me.user_id, "long_term",
                                                      POLICY_FETCH_LIMIT),
                      ![p].ti = 1]
    /\ UNCHANGED <<config, backend, now, memories, clusters, last, scored>>

\* records = db.get_memories(thread_id=th, tier="long_term", summarized=False)
\* for the next thread, and the test of their number
RunThreadRecords(p) ==
    LET me == running[p] IN
    /\ me.pc = "thread_records"
    /\ IF me.ti > Len(me.threads)
       THEN running' = [running EXCEPT ![p].pc = "return"]
       ELSE LET records == get_memories(memories,
                    [NoFilter EXCEPT !.thread_id = me.threads[me.ti],
                                     !.tier = "long_term", !.summarized = "False"],
                    THREAD_SUMMARY_BATCH_SIZE, backend)
            IN  IF Len(records) >= MIN_RECORDS_FOR_THREAD_SUMMARY
                THEN running' = [running EXCEPT
                        ![p].pc = "thread_existing",
                        ![p].records = records,
                        ![p].owner = memories[records[1]].user_id,
                        ![p].summary_text = Summarize(JoinContents(memories, records, 1),
                                                      THREAD_SUMMARY_MAX_CHARS)]
                ELSE running' = [running EXCEPT ![p].ti = me.ti + 1]
    /\ UNCHANGED <<config, backend, now, memories, clusters, last, scored>>

\* existing_summaries = db.get_memories(..., where_metadata={"kind":
\* "thread_summary"}, limit=1) and the test `if not existing_summaries`
RunThreadExisting(p) ==
    LET me == running[p]
        existing_summaries == get_memories(memories,
            [NoFilter EXCEPT !.thread_id = me.threads[me.ti], !.tier = "long_term",
                             !.where_metadata.kind = "thread_summary"],
            1, backend)
    IN  /\ me.pc = "thread_existing"
        /\ running' = [running EXCEPT
                          ![p].pc = IF existing_summaries = <<>> THEN "thread_insert"
                                    ELSE "thread_mark"]
        /\ UNCHANGED <<config, backend, now, memories, clusters, last, scored>>

\* db.insert_memory(user_id=records[0]["user_id"], content=summary_text, ...)
RunThreadInsert(p) ==
    LET me == running[p] IN
    /\ me.pc = "thread_insert"
    /\ memories' = insert_memory(memories, me.owner, me.summary_text,
                                 me.threads[me.ti], "long_term",
                                 Metadata("thread_summary", None, None), now)
    /\ running' = [running EXCEPT ![p].pc = "thread_mark",
                                  ![p].summary.thread_summaries = @ + 1]
    /\ UNCHANGED <<config, backend, now, clusters, last, scored>>

\* db.mark_summarized(memory_ids=[r["id"] for r in records])
RunThreadMark(p) ==
    LET me == running[p] IN
    /\ me.pc = "thread_mark"
    /\ memories' = mark_summarized(memories, me.records, now)
    /\ running' = [running EXCEPT ![p].pc = "thread_records", ![p].ti = me.ti + 1]
    /\ UNCHANGED <<config, backend, now, clusters, last, scored>>

\* return summary
RunReturn(p) ==
    LET me == running[p] IN
    /\ me.pc = "return"
    /\ last' = [op |-> "run", user_id |-> me.user_id, fault |-> 0, raised |-> FALSE,
                summary |-> me.summary]
    /\ running' = [running EXCEPT ![p].pc = "returned"]
    /\ UNCHANGED <<config, backend, now, memories, clusters, scored>>

\* the caller whose run has returned may call again
CallerFree(p) ==
    /\ running[p].pc = "returned"
    /\ running' = [running EXCEPT ![p] = Idle]
    /\ UNCHANGED <<config, backend, now, memories, clusters, last, scored>>

\* an execution in flight
InFlight(p) == running[p].pc \notin {"idle", "returned"}

\* the clock advances by a day while executions may be in flight.  An
\* execution takes less than a day, the unit of expiry_days: the clock
\* advances at most once between its call and its return.
TickDuringRuns(max) ==
    /\ \A p \in Callers : InFlight(p) => now = running[p].started
    /\ Tick(max)

\* PostgresConnector.upsert_cluster called by a client
UpsertCluster(user_id, topic, category, memory_ids) ==
    /\ Len(clusters) < MaxClusters
    /\ clusters' = upsert_cluster(clusters, user_id, topic, category, memory_ids, <<>>)
    /\ last' = [op |-> "upsert_cluster", cluster_id |-> Len(clusters) + 1,
                user_id |-> user_id, topic |-> topic, category |-> category]
    /\ UNCHANGED <<config, backend, now, memories, running, scored>>

\* Memoric.rebuild_clusters(user_id) / PolicyExecutor.cluster_and_aggregate
Rebuild(user_id) ==
    LET st == cluster_and_aggregate(memories, clusters, user_id, backend)
    IN  /\ Len(st.cl) <= MaxClusters
        /\ clusters' = st.cl
        /\ last' = [op |-> "rebuild", user_id |-> user_id, created |-> st.created]
        /\ UNCHANGED <<config, backend, now, memories, running, scored>>


\* One caller's execution of cluster_and_aggregate, one storage call after
\* another: the fetch of the owner's rows (grouped at once, in memory), then
\* one upsert_cluster for each draft
RebuildCall(p, user_id) ==
    /\ running[p].pc = "idle"
    /\ running' = [running EXCEPT
          ![p] = [Idle EXCEPT
                     !.pc = "upsert", !.user_id = user_id, !.di = 1,
                     !.drafts = group(memories,
                                      get_memories(memories,
                                          [NoFilter EXCEPT !.user_id = user_id],
                                          POLICY_FETCH_LIMIT, backend))]]
    /\ UNCHANGED <<config, backend, now, memories, clusters, last, scored>>

RebuildUpsert(p) ==
    LET me == running[p] IN
    /\ me.pc = "upsert"
    /\ me.di <= Len(me.drafts)
    /\ LET c == me.drafts[me.di]
           cl == upsert_cluster(clusters, me.user_id, c.topic, c.category,
                                c.memory_ids, c.summary)
       IN  /\ clusters' = cl
           /\ running' = [running EXCEPT
                             ![p].di = me.di + 1,
                             ![p].created = IF cl[Len(cl)].cluster_id # 0
                                            THEN me.created + 1 ELSE me.created]
    /\ UNCHANGED <<config, backend, now, memories, last, scored>>

\* return created
RebuildReturn(p) ==
    LET me == running[p] IN
    /\ me.pc = "upsert"
    /\ me.di > Len(me.drafts)
    /\ last' = [op |-> "rebuild", user_id |-> me.user_id, created |-> me.created]
    /\ running' = [running EXCEPT ![p].pc = "returned"]
    /\ UNCHANGED <<config, backend, now, memories, clusters, scored>>

\* SimpleClustering().group(memories) called by a client on the rows of the
\* table, of whatever owner
Group ==
    /\ last' = [op |-> "group", drafts |-> group(memories, Ids(memories))]
    /\ UNCHANGED <<config, backend, now, memories, clusters, running, scored>>

\* Memoric.retrieve / Retriever.search
Search(a) ==
    /\ last' = [op |-> "search", args |-> a,
                ret |-> search(memories, a, config, now, backend)]
    /\ UNCHANGED <<config, backend, now, memories, clusters, running, scored>>

\* ScoringEngine.compute(memory, now=t) called by a client of the engine the
\* instance was built with; the call reads the record and the engine's
\* configuration and writes nothing
Compute(r, t) ==
    /\ Len(scored) < MaxCalls
    /\ LET ret == compute(r, config.scoring, t)
       IN  /\ scored' = Append(scored, [memory |-> r, now |-> t, ret |-> ret, at |-> now])
           /\ last' = [op |-> "compute", ret |-> ret]
    /\ UNCHANGED <<config, backend, now, memories, clusters, running>>

\* SimpleSummarizer().summarize(text, target_chars) called by a client
CallSummarize(text, target_chars) ==
    /\ last' = [op |-> "summarize", text |-> text, target_chars |-> target_chars,
                ret |-> Summarize(text, target_chars)]
    /\ UNCHANGED <<config, backend, now, memories, clusters, running, scored>>

Next ==
    \/ Tick(MaxNow)
    \/ \E u \in Users, c \in Texts : Save(u, "t1", c, None, None)
    \/ \E u \in {None, "u1"}, fault \in 0..Len(Steps) : Run(u, fault)

Spec == Init /\ [][Next]_vars

\* Retrieval over a store that saves, mark_summarized calls and policy runs change
Scopes == {"thread", "topic", "user", "global"}

SearchArgs(user_id, thread_id, metadata_filter, scope, top_k) ==
    [user_id |-> user_id, thread_id |-> thread_id, metadata_filter |-> metadata_filter,
     scope |-> scope, top_k |-> top_k]

TopicFilter(p) == [NoMetadata EXCEPT !.topic = p]

SearchCalls ==
    { SearchArgs(u, "t1", NoMetadata, "thread", <<2>>) : u \in {"u1", None} }
    \cup { SearchArgs("u1", None, TopicFilter(p), "topic", <<2>>) : p \in {"refund", None} }
    \cup { SearchArgs("u1", th, NoMetadata, "user", <<2>>) : th \in {"t1", None} }
    \cup { SearchArgs("u1", "t1", NoMetadata, sc, <<2>>) : sc \in {"global", "team"} }
    \cup { SearchArgs("u1", None, NoMetadata, "user", k) : k \in {NoTopK, <<0>>, <<-1>>} }
    \cup { SearchArgs("", None, NoMetadata, "user", <<2>>) }

OneTier == << Tier("long_term", 0, 0) >>

InitRetrieval ==
    /\ config = Config(OneTier, "long_term", TRUE, 10)
    /\ backend \in Backends
    /\ now = 0
    /\ memories = <<>>
    /\ clusters = <<>>
    /\ last = [op |-> "init"]
    /\ running = [p \in Callers |-> Idle]
    /\ scored = <<>>

NextRetrieval ==
    \/ Tick(MaxSearchNow)
    \/ \E u \in Users, th \in {"t1", "t2", None}, p \in {"refund", None} :
           Save(u, th, LONG_TEXT, p, None)
    \/ \E id \in 1..MaxRecords : MarkSummarized(id)
    \/ Run(None, 0)
    \/ \E a \in SearchCalls : Search(a)

SpecRetrieval == InitRetrieval /\ [][NextRetrieval]_vars

\* The cluster table under saves, client upserts and rebuilds
InitClusters ==
    /\ config = Config(ThreeTiers, "long_term", FALSE, 10)
    /\ backend = "sqlite"
    /\ now = 0
    /\ memories = <<>>
    /\ clusters = <<>>
    /\ last = [op |-> "init"]
    /\ running = [p \in Callers |-> Idle]
    /\ scored = <<>>

NextClusters ==
    \/ \E u \in Users, p \in Topics \cup {None}, g \in Categories \cup {None} :
           Save(u, "t1", SHORT_TEXT, p, g)
    \/ \E u \in Users, ids \in {<<1>>, <<1, 2>>} :
           UpsertCluster(u, "refund", "support", ids)
    \/ \E u \in Users : Rebuild(u)

SpecClusters == InitClusters /\ [][NextClusters]_vars

\* Thread aggregation.  The store starts with a thread one record short of
\* MIN_RECORDS_FOR_THREAD_SUMMARY: the state after that many saves at day 0,
\* by one owner or by two owners who use the same thread id.
SeedRecords == MIN_RECORDS_FOR_THREAD_SUMMARY - 1

SeedOwners ==
    { [k \in 1..SeedRecords |-> "u1"],
      [k \in 1..SeedRecords |-> IF k = 1 THEN "u2" ELSE "u1"],
      [k \in 1..SeedRecords |-> IF k = SeedRecords THEN "u2" ELSE "u1"] }

TwoTiers == << Tier("mid_term", 1, 0), Tier("long_term", 0, 0) >>

ThreadConfigs ==
    { Config(OneTier, "long_term", FALSE, 10),
      Config(OneTier, "long_term", TRUE, 10),
      Config(TwoTiers, "mid_term", FALSE, 10) }

InitThreads ==
    /\ config \in ThreadConfigs
    /\ backend = "sqlite"
    /\ now = 0
    /\ \E owners \in SeedOwners :
          memories = [k \in 1..SeedRecords |->
                         Row(owners[k], "t1", SHORT_TEXT, config.write_tier,
                             Metadata(None, None, None), 0)]
    /\ clusters = <<>>
    /\ last = [op |-> "init"]
    /\ running = [p \in Callers |-> Idle]
    /\ scored = <<>>

NextThreads ==
    \/ Tick(MaxNow)
    \/ SaveWithin(MaxThreadRecords, "u1", "t1", SHORT_TEXT, None, None)
    \/ \E u \in {None, "u1"} : Run(u, 0)

SpecThreads == InitThreads /\ [][NextThreads]_vars

\* Thread aggregation under a configuration whose tier long_term has a
\* successor, so that the records of long_term, aggregates included, migrate
ArchiveTiers == << Tier("long_term", 1, 0), Tier("archive", 0, 0) >>

InitArchive ==
    /\ config = Config(ArchiveTiers, "long_term", FALSE, 10)
    /\ backend = "sqlite"
    /\ now = 0
    /\ memories = [k \in 1..SeedRecords |->
                      Row("u1", "t1", SHORT_TEXT, config.write_tier,
                          Metadata(None, None, None), 0)]
    /\ clusters = <<>>
    /\ last = [op |-> "init"]
    /\ running = [p \in Callers |-> Idle]
    /\ scored = <<>>

NextArchive ==
    \/ Tick(MaxArchiveNow)
    \/ SaveWithin(MaxArchiveRecords, "u1", "t1", SHORT_TEXT, None, None)
    \/ Run(None, 0)

SpecArchive == InitArchive /\ [][NextArchive]_vars

\* Two callers run the policies at the same time over a thread that saves
\* bring to the aggregation minimum
InitConcurrentRuns ==
    /\ config = Config(OneTier, "long_term", FALSE, 10)
    /\ backend = "sqlite"
    /\ now = 0
    /\ \E owners \in SeedOwners :
          memories = [k \in 1..SeedRecords |->
                         Row(owners[k], "t1", SHORT_TEXT, config.write_tier,
                             Metadata(None, None, None), 0)]
    /\ clusters = <<>>
    /\ last = [op |-> "init"]
    /\ running = [p \in Callers |-> Idle]
    /\ scored = <<>>

NextConcurrentRuns ==
    \/ SaveWithin(MaxRunRecords, "u1", "t1", SHORT_TEXT, None, None)
    \/ \E p \in Callers :
          \/ \E u \in {None, "u1"} : RunCall(p, u)
          \/ RunStep(p)
          \/ RunDistinctThreads(p)
          \/ RunThreadRecords(p)
          \/ RunThreadExisting(p)
          \/ RunThreadInsert(p)
          \/ RunThreadMark(p)
          \/ RunReturn(p)

SpecConcurrentRuns == InitConcurrentRuns /\ [][NextConcurrentRuns]_vars

\* Two callers rebuild the clusters at the same time, for one owner or two
NextConcurrentRebuilds ==
    \/ \E u \in Users, p \in {"refund", "Refund", None}, g \in Categories :
           Save(u, "t1", SHORT_TEXT, p, g)
    \/ \E p \in Callers :
          \/ \E u \in Users : RebuildCall(p, u)
          \/ RebuildUpsert(p)
          \/ RebuildReturn(p)

SpecConcurrentRebuilds == InitClusters /\ [][NextConcurrentRebuilds]_vars

\* Repeated runs over a store that holds more rows than the fetch limit: the
\* limit is scaled to SmallFetchLimit, and run is called again and again
TrimmedTier == << Tier("long_term", 0, 3) >>

ScaledConfig(tiers, write_tier, enabled) ==
    [Config(tiers, write_tier, enabled, 10) EXCEPT !.fetch_limit = SmallFetchLimit]

EventualConfigs ==
    { ScaledConfig(TrimmedTier, "long_term", FALSE),
      ScaledConfig(ThreeTiers, "short_term", FALSE),
      ScaledConfig(OneTier, "long_term", TRUE) }

InitEventual ==
    /\ config \in EventualConfigs
    /\ backend = "sqlite"
    /\ now = 0
    /\ memories = <<>>
    /\ clusters = <<>>
    /\ last = [op |-> "init"]
    /\ running = [p \in Callers |-> Idle]
    /\ scored = <<>>

NextEventual ==
    \/ Tick(MaxNow)
    \/ \E c \in Texts : Save("u1", "t1", c, None, None)
    \/ Run(None, 0)

SpecEventual ==
    InitEventual /\ [][NextEventual]_vars /\ WF_vars(Run(None, 0))

\* The summarize pass under several choices of min_chars and target_chars
SummarizeConfig(min_chars, target_chars, mark) ==
    [Config(OneTier, "long_term", TRUE, 10) EXCEPT
        !.summarization.min_chars = min_chars,
        !.summarization.target_chars = target_chars,
        !.summarization.mark_summarized = mark]

SummarizeConfigs ==
    { SummarizeConfig(c[1], c[2], mark) :
        c \in {<<4, 3>>, <<5, 2>>, <<4, 5>>, <<2, 3>>}, mark \in BOOLEAN }

InitSummarize ==
    /\ config \in SummarizeConfigs
    /\ backend = "sqlite"
    /\ now = 0
    /\ memories = <<>>
    /\ clusters = <<>>
    /\ last = [op |-> "init"]
    /\ running = [p \in Callers |-> Idle]
    /\ scored = <<>>

NextSummarize ==
    \/ \E u \in Users, c \in Texts : Save(u, "t1", c, None, None)
    \/ \E u \in {None, "u1"} : Run(u, 0)

SpecSummarize == InitSummarize /\ [][NextSummarize]_vars

\* Clustering of records whose topic is a string, JSON null, empty or absent
NextGroup ==
    \/ \E u \in Users, p \in {"refund", "Refund", Null, "", None},
          g \in Categories \cup {None} :
           Save(u, "t1", SHORT_TEXT, p, g)
    \/ Group
    \/ \E u \in Users : Rebuild(u)
    \/ \E u \in {None, "u1"} : Run(u, 0)

SpecGroup == InitClusters /\ [][NextGroup]_vars

----------------------------------------------------------------------------
(* Properties *)

\* the position of a tier in storage.tiers
TierIndex(name) == CHOOSE i \in 1..Len(config.tiers) : config.tiers[i].name = name

RunReturned == last.op = "run" /\ ~last.raised

\* the rows a run for user_id selects
InRunScope(r, user_id) == Truthy(user_id) => r.user_id = user_id

\* C1: every tier change made by PolicyExecutor.run moves a record to exactly
\* the tier that follows its current tier in storage.tiers; no run moves a
\* record backward or past a tier, and a record in the last tier stays there.
C1_MonotonicTiering ==
    [][ last'.op = "run" =>
          /\ Len(memories') >= Len(memories)
          /\ \A i \in 1..Len(memories) :
                \/ memories'[i].tier = memories[i].tier
                \/ /\ TierIndex(memories[i].tier) < Len(config.tiers)
                   /\ TierIndex(memories'[i].tier) = TierIndex(memories[i].tier) + 1
      ]_vars

\* a run has moved a record from the first tier to the second
C1_Witness ==
    /\ last.op = "run"
    /\ last.summary.migrated >= 1
    /\ \E i \in 1..Len(memories) :
          config.write_tier = "short_term" /\ memories[i].tier = "mid_term"

\* the rows of tier k that are older than its expiry_days and in the run's scope
Expired(mem, k, user_id, t) ==
    { i \in 1..Len(mem) :
        /\ mem[i].tier = config.tiers[k].name
        /\ mem[i].updated_at < t - config.tiers[k].expiry_days
        /\ InRunScope(mem[i], user_id) }

\* the rows of tier k that the trim step of tier k rewrites
TrimmedBy(mem, k) ==
    { i \in 1..Len(mem) :
        /\ mem[i].tier = config.tiers[k].name
        /\ config.tiers[k].max_chars > 0
        /\ Trim(mem[i].content, config.tiers[k].max_chars) # mem[i].content }

MigratingTiers ==
    { k \in 1..(Len(config.tiers) - 1) : config.tiers[k].expiry_days > 0 }

\* C2 as claimed: every record that is older than expiry_days in a non-terminal
\* tier when run starts is in the successor tier when run returns, and migrated
\* counts it; also in tiers that declare trim.max_chars.
C2_AsClaimed ==
    [][ (last'.op = "run" /\ ~last'.raised) =>
          \A k \in MigratingTiers :
             LET E == Expired(memories, k, last'.user_id, now)
             IN  /\ \A i \in E : memories'[i].tier = config.tiers[k + 1].name
                 /\ last'.summary.migrated >= Cardinality(E)
      ]_vars

\* C2 (amended): the same for the records the trim step of their tier leaves
\* unchanged; a record that the run trims has its updated_at set to now and
\* stays in its tier.
C2_MigratesExpired ==
    [][ (last'.op = "run" /\ ~last'.raised) =>
          \A k \in MigratingTiers :
             LET E == Expired(memories, k, last'.user_id, now) \ TrimmedBy(memories, k)
             IN  /\ \A i \in E : memories'[i].tier = config.tiers[k + 1].name
                 /\ last'.summary.migrated >= Cardinality(E)
      ]_vars

\* a run returned after migrating a record of a tier that declares trim.max_chars
C2_Witness ==
    /\ RunReturned
    /\ last.summary.migrated >= 1
    /\ last.summary.trimmed = 0
    /\ config.tiers[1].max_chars > 0
    /\ \E i \in 1..Len(memories) :
          /\ config.write_tier = "short_term"
          /\ memories[i].tier = "mid_term"
          /\ memories[i].updated_at = now

ClusterKeyOf(c) == <<c.user_id, c.topic, c.category>>

\* C3 as claimed: after any sequence of upsert_cluster and rebuild calls at most
\* one cluster row exists per (owner, topic, category); an upsert for an
\* existing key returns the existing cluster id.
C3_AsClaimed ==
    /\ \A i, j \in 1..Len(clusters) :
          ClusterKeyOf(clusters[i]) = ClusterKeyOf(clusters[j]) => i = j
    /\ last.op = "upsert_cluster" =>
          \A i \in 1..Len(clusters) :
             ClusterKeyOf(clusters[i]) = <<last.user_id, last.topic, last.category>>
                => clusters[i].cluster_id = last.cluster_id

Searched == last.op = "search"

Results == { last.ret.results[k] : k \in 1..Len(last.ret.results) }

\* C4: a record that has been marked summarized, by mark_summarized or by a
\* policy step, is in the result of no search, in any scope.
C4_SummarizedExcluded ==
    Searched => \A id \in Results : memories[id].summarized = 0

\* a search returned a record of the owner while another record, which the
\* filters of the call select, is marked summarized and has the higher score
C4_Witness ==
    /\ Searched
    /\ last.args.scope = "user"
    /\ \E i, j \in 1..Len(memories) :
          /\ memories[i].summarized = 1 /\ memories[i].user_id = last.args.user_id
          /\ j \in Results
          /\ compute(memories[i], config.scoring, now)
                > compute(memories[j], config.scoring, now)

\* the un-summarized rows of an owner
Unsummarized(user_id) ==
    { i \in 1..Len(memories) :
        memories[i].user_id = user_id /\ memories[i].summarized = 0 }

\* C5: a thread-scope search for owner o and thread t returns only records of
\* o in t; a user-scope search for o returns the un-summarized records of o
\* from all threads, up to top_k, and no record of another owner, also when a
\* thread id is supplied.
C5_ScopeCorrectness ==
    /\ (Searched /\ last.args.scope = "thread" /\ Truthy(last.args.user_id)
                 /\ Truthy(last.args.thread_id)) =>
          \A id \in Results :
             /\ memories[id].user_id = last.args.user_id
             /\ memories[id].thread_id = last.args.thread_id
    /\ (Searched /\ last.args.scope = "user" /\ Truthy(last.args.user_id)
                 /\ last.args.top_k # NoTopK /\ last.args.top_k[1] > 0) =>
          /\ Results \subseteq Unsummarized(last.args.user_id)
          /\ Cardinality(Results) = Len(last.ret.results)
          /\ Len(last.ret.results)
                = Min(Cardinality(Unsummarized(last.args.user_id)), last.args.top_k[1])

\* a user-scope search that was given a thread id returned records of the owner
\* from two threads while another owner has a record in the store
C5_Witness ==
    /\ Searched
    /\ last.args.scope = "user"
    /\ Truthy(last.args.thread_id)
    /\ \E i \in Results :
          /\ memories[i].thread_id # last.args.thread_id
          /\ \E j \in 1..Len(memories) : memories[j].user_id # last.args.user_id

\* the un-summarized rows of an owner with a topic
WithTopic(user_id, topic) ==
    { i \in Unsummarized(user_id) : memories[i].metadata.topic = topic }

\* C6 as claimed: a topic-scope search for owner o with metadata_filter
\* {topic: p} returns exactly the un-summarized records of o with topic p (when
\* they are fewer than top_k), on both back-ends, also those without a thread.
C6_AsClaimed ==
    (Searched /\ last.args.scope = "topic" /\ Truthy(last.args.user_id)
              /\ HasKey(last.args.metadata_filter, "topic")
              /\ ~Truthy(last.args.thread_id)
              /\ Cardinality(WithTopic(last.args.user_id,
                                       last.args.metadata_filter.topic))
                    <= last.args.top_k[1]) =>
       Results = WithTopic(last.args.user_id, last.args.metadata_filter.topic)

\* C7 as claimed: a search with a scope that is none of thread, topic, user and
\* global fails with an error and returns no records.
C7_AsClaimed ==
    (Searched /\ last.args.scope \notin Scopes) =>
       last.ret.raised /\ last.ret.results = <<>>

\* C8 as claimed: a search with top_k zero or negative raises and returns no
\* result list.
C8_AsClaimed ==
    (Searched /\ last.args.top_k # NoTopK /\ last.args.top_k[1] <= 0) =>
       last.ret.raised /\ last.ret.results = <<>>

\* C9 as claimed: when a trimmer, summarizer or storage call of one step fails,
\* run still executes the remaining steps and returns the summary with the
\* counts achieved; it does not raise.
C9_AsClaimed ==
    [][ last'.op = "run" =>
          /\ ~last'.raised
          /\ \A k \in MigratingTiers :
                (last'.fault # 0 /\ last'.fault # 2 * k) =>
                   \A i \in Expired(memories, k, last'.user_id, now)
                            \ TrimmedBy(memories, k) :
                      memories'[i].tier = config.tiers[k + 1].name
      ]_vars

TerminalTier == config.tiers[Len(config.tiers)].name

\* the un-summarized members of a thread in the terminal tier, among the rows
\* a run for user_id selects
ThreadMembers(th, user_id) ==
    { i \in 1..Len(memories) :
        /\ memories[i].tier = TerminalTier
        /\ memories[i].thread_id = th
        /\ memories[i].summarized = 0
        /\ memories[i].metadata.kind # "thread_summary"
        /\ InRunScope(memories[i], user_id) }

\* C10 as claimed: a thread of the terminal tier with at least
\* summarization.thread.min_records un-summarized records is aggregated by run:
\* when run returns, the thread has an aggregate and its members are marked
\* summarized, so no such thread is left.
C10_AsClaimed ==
    RunReturned =>
       \A th \in Threads :
          Cardinality(ThreadMembers(th, last.user_id))
             < config.summarization.thread_min_records

\* the aggregate records of an owner in a thread and a tier
AggregatesOf(user_id, th, tier) ==
    { i \in 1..Len(memories) :
        /\ memories[i].metadata.kind = "thread_summary"
        /\ memories[i].user_id = user_id
        /\ memories[i].thread_id = th
        /\ memories[i].tier = tier }

TierNames == { config.tiers[k].name : k \in 1..Len(config.tiers) }

\* C11 as claimed: after any sequence of runs, saves and migrations there is at
\* most one aggregate record (metadata kind = thread_summary) per owner, thread
\* and tier.
C11_AsClaimed ==
    \A u \in Users, th \in Threads, tier \in TierNames :
       Cardinality(AggregatesOf(u, th, tier)) <= 1

\* the aggregate records of a thread in a tier
ThreadAggregates(th, tier) ==
    { i \in 1..Len(memories) :
        /\ memories[i].metadata.kind = "thread_summary"
        /\ memories[i].thread_id = th
        /\ memories[i].tier = tier }

\* C12 as claimed: when two concurrent executions of run over the same data
\* have both returned, whatever their interleaving, at most one aggregate
\* record (kind = thread_summary) has been inserted per thread and tier.
C12_AsClaimed ==
    (\A p \in Callers : running[p].pc = "returned") =>
       \A th \in Threads, tier \in TierNames :
          Cardinality(ThreadAggregates(th, tier)) <= 1

\* the drafts a single rebuild for the owner makes of the rows now stored
DraftsOf(user_id) ==
    group(memories, get_memories(memories, [NoFilter EXCEPT !.user_id = user_id],
                                 POLICY_FETCH_LIMIT, backend))

C14_AsClaimed ==
    [][ (last'.op = "run" /\ Truthy(last'.user_id)) =>
          /\ \A i \in 1..Len(memories) :
                memories[i].user_id # last'.user_id => memories'[i] = memories[i]
          /\ \A i \in (Len(memories) + 1)..Len(memories') :
                memories'[i].user_id = last'.user_id
      ]_vars

\* C16 as claimed: a run started right after a run has returned, for the same
\* owner and with no write in between, changes the tier, content and
\* summarized flag of no record, inserts no record, and returns zero for
\* migrated, trimmed, summarized and thread_summaries.
C16_AsClaimed ==
    [][ (/\ last.op = "run" /\ ~last.raised
         /\ last'.op = "run" /\ ~last'.raised
         /\ last'.user_id = last.user_id) =>
          /\ Len(memories') = Len(memories)
          /\ \A i \in 1..Len(memories) :
                /\ memories'[i].tier = memories[i].tier
                /\ memories'[i].content = memories[i].content
                /\ memories'[i].summarized = memories[i].summarized
          /\ last'.summary.migrated = 0
          /\ last'.summary.trimmed = 0
          /\ last'.summary.summarized = 0
          /\ last'.summary.thread_summaries = 0
      ]_vars

\* the configuration of the tier a row is in
TierOf(r) == config.tiers[TierIndex(r.tier)]

\* a row that a step of run has yet to process: its content is over the trim
\* threshold of its tier, or it is older than the expiry of its non-terminal
\* tier, or summarization is enabled and its content, of at least min_chars,
\* has not been summarized
Unprocessed(r) ==
    \/ TierOf(r).max_chars > 0 /\ Len(r.content) > TierOf(r).max_chars
    \/ /\ TierOf(r).expiry_days > 0
       /\ TierIndex(r.tier) < Len(config.tiers)
       /\ r.updated_at < now - TierOf(r).expiry_days
    \/ /\ config.summarization.enabled
       /\ Len(r.content) >= config.summarization.min_chars
       /\ r.summarized = 0
       /\ Summarize(r.content, config.summarization.target_chars) # r.content

\* C15 as claimed: when run is called again and again, with finitely many
\* other writes, every record eligible for a step is eventually processed by
\* it, also when there are more records than the fetch limit of the step.
C15_AsClaimed ==
    <>[](\A i \in 1..Len(memories) : ~Unprocessed(memories[i]))

\* the rows the summarize pass of a run for user_id fetches whose content is
\* at least min_chars long (in a configuration without trim, where the content
\* fetched is the content stored when the run starts)
LongEnough(user_id) ==
    { i \in 1..Len(memories) :
        /\ InRunScope(memories[i], user_id)
        /\ Len(memories[i].content) >= config.summarization.min_chars }

\* C17 as claimed: with summarization enabled, whatever min_chars and
\* target_chars are, a run marks every fetched record of at least min_chars
\* summarized (when mark_summarized is on) and counts it in `summarized`; it
\* leaves the shorter records untouched.
C17_AsClaimed ==
    [][ (last'.op = "run" /\ ~last'.raised /\ config.summarization.enabled) =>
          /\ config.summarization.mark_summarized =>
                \A i \in LongEnough(last'.user_id) : memories'[i].summarized = 1
          /\ last'.summary.summarized = Cardinality(LongEnough(last'.user_id))
          /\ \A i \in (1..Len(memories)) \ LongEnough(last'.user_id) :
                memories'[i] = memories[i]
      ]_vars

\* clustering.min_cluster_size of the configurations of the tests
MinClusterSize == 2

\* the drafts of an owner's rows that have at least MinClusterSize members
EligibleDrafts(user_id) ==
    { d \in 1..Len(DraftsOf(user_id)) :
        Len(DraftsOf(user_id)[d].memory_ids) >= MinClusterSize }

\* the owners a run for user_id covers
RunOwners(user_id) == IF Truthy(user_id) THEN {user_id} ELSE Users

\* C18 as claimed: run rebuilds the topic clusters: when it returns, every
\* (owner, topic, category) group of eligible size among the records it covers
\* has its cluster row, and `clusters` in the summary is the number of
\* clusters it created or updated.
C18_AsClaimed ==
    RunReturned =>
       /\ \A u \in RunOwners(last.user_id) : \A d \in EligibleDrafts(u) :
             \E i \in 1..Len(clusters) :
                ClusterKeyOf(clusters[i])
                   = <<u, DraftsOf(u)[d].topic, DraftsOf(u)[d].category>>
       /\ last.summary.clusters
             = Cardinality({ x \in RunOwners(last.user_id) \X (1..Len(memories)) :
                               x[2] \in EligibleDrafts(x[1]) })

\* the key part the claim gives a topic or category value
KeyPart(x) == IF x \in {None, Null, ""} THEN "general" ELSE Lower(x)

DraftIds(d) == { d.memory_ids[k] : k \in 1..Len(d.memory_ids) }

\* C19 as claimed: group puts every input record in exactly one draft, keyed by
\* the owner, the lowercased topic and the lowercased category ("general" when
\* missing, null or empty); records of different owners share no draft and no
\* draft is empty.
C19_AsClaimed ==
    last.op = "group" =>
       /\ \A i \in 1..Len(memories) :
             Cardinality({ d \in 1..Len(last.drafts) : i \in DraftIds(last.drafts[d]) }) = 1
       /\ \A d \in 1..Len(last.drafts) :
             /\ DraftIds(last.drafts[d]) # {}
             /\ \A i, j \in DraftIds(last.drafts[d]) :
                   memories[i].user_id = memories[j].user_id
             /\ \A i \in DraftIds(last.drafts[d]) :
                   /\ last.drafts[d].topic = KeyPart(memories[i].metadata.topic)
                   /\ last.drafts[d].category = KeyPart(memories[i].metadata.category)

\* C20 as claimed: group emits and rebuild stores a cluster only for a bucket
\* of at least min_cluster_size members.
C20_AsClaimed ==
    /\ last.op = "group" =>
          \A d \in 1..Len(last.drafts) :
             Len(last.drafts[d].memory_ids) >= MinClusterSize
    /\ \A i \in 1..Len(clusters) : Len(clusters[i].memory_ids) >= MinClusterSize

\* Two callers run the policies at the same time, again and again, over records
\* that age in three tiers; each migrate step is a find_older_than and an
\* update_tier that other calls may come between
PlainTiers ==
    << Tier("short_term", 1, 0), Tier("mid_term", 1, 0), Tier("long_term", 1, 0) >>

InitTiering ==
    /\ config = Config(PlainTiers, "short_term", FALSE, 10)
    /\ backend = "sqlite"
    /\ now = 0
    /\ memories = <<>>
    /\ clusters = <<>>
    /\ last = [op |-> "init"]
    /\ running = [p \in Callers |-> Idle]
    /\ scored = <<>>

NextTiering ==
    \/ TickDuringRuns(MaxTieringNow)
    \/ Save("u1", "t1", SHORT_TEXT, None, None)
    \/ \E p \in Callers :
          \/ RunCall(p, None)
          \/ RunTrimOrSummarize(p)
          \/ RunFindOlder(p)
          \/ RunUpdateTier(p)
          \/ RunDistinctThreads(p)
          \/ RunThreadRecords(p)
          \/ RunReturn(p)
          \/ CallerFree(p)

SpecTiering == InitTiering /\ [][NextTiering]_vars

\* The scoring engine under compute calls for records of every importance,
\* repetition and age, at reference times of the caller's choice, for engines
\* of several weights, decay windows and custom rules
ScoredRecord(importance, seen_count, updated_at) ==
    [ metadata |-> [importance |-> importance, seen_count |-> seen_count],
      updated_at |-> updated_at ]

ScoredRecords ==
    { ScoredRecord("low", 1, 0), ScoredRecord("critical", 30, 1),
      ScoredRecord("urgent", 0, 0) }

ScoreTimes == {0, 1, MaxScoreTime}

Weights(importance, recency, repetition) ==
    [importance_weight |-> importance, recency_weight |-> recency,
     repetition_weight |-> repetition]

WeightChoices == { Weights(50, 30, 20), Weights(0, 100, 0), Weights(100, 100, 100) }

RuleLists ==
    { <<>>,
      << Rule(TRUE, 0), Rule(FALSE, 1000) >>,
      << Rule(FALSE, -1000), Rule(TRUE, 0), Rule(FALSE, 1030) >>,
      << Rule(FALSE, -1000) >> }

ScoringConfigs ==
    { [importance_weight |-> w.importance_weight, recency_weight |-> w.recency_weight,
       repetition_weight |-> w.repetition_weight, decay_days |-> d,
       custom_rules |-> rules] :
         w \in WeightChoices, d \in 0..MaxDecayDays, rules \in RuleLists }

InitScoring ==
    /\ config \in { [Config(OneTier, "long_term", FALSE, 10) EXCEPT !.scoring = sc] :
                        sc \in ScoringConfigs }
    /\ backend = "sqlite"
    /\ now = 0
    /\ memories = <<>>
    /\ clusters = <<>>
    /\ last = [op |-> "init"]
    /\ running = [p \in Callers |-> Idle]
    /\ scored = <<>>

NextScoring ==
    \/ Tick(MaxSearchNow)
    \/ \E r \in ScoredRecords, t \in ScoreTimes : Compute(r, t)

SpecScoring == InitScoring /\ [][NextScoring]_vars

\* The summarizer applied to every text of letters, blanks and periods up to
\* a length, for every target length up to a maximum
Alphabet == {"a", " ", "."}

SampleTexts == UNION { [1..n -> Alphabet] : n \in 0..MaxTextLen }

NextText ==
    \E text \in SampleTexts, target_chars \in 0..MaxTargetChars :
       CallSummarize(text, target_chars)

SpecText == InitClusters /\ [][NextText]_vars

----------------------------------------------------------------------------
(* Ranking *)

\* the score search gave a returned or fetched record
ScoreOf(id) == compute(memories[id], config.scoring, now)

\* the candidates the storage query of the last search returned
Fetched ==
    LET records == Candidates(memories, last.args, backend)
    IN  { records[k] : k \in 1..Len(records) }

\* C21 as claimed: the list search returns is ordered by non-increasing score,
\* records of equal score keep the order in which storage returned them, the
\* list is no longer than top_k (than the configured default when top_k is
\* not supplied), and no fetched candidate that was left out has a higher
\* score than a returned record.
C21_AsClaimed ==
    Searched =>
       LET res == last.ret.results
           limit == IF last.args.top_k = NoTopK THEN config.default_top_k
                    ELSE last.args.top_k[1]
       IN  /\ \A k, l \in 1..Len(res) :
                 k < l => \/ ScoreOf(res[k]) > ScoreOf(res[l])
                          \/ ScoreOf(res[k]) = ScoreOf(res[l]) /\ res[k] < res[l]
           /\ Len(res) <= limit
           /\ \A c \in Fetched \ Results, id \in Results : ScoreOf(c) <= ScoreOf(id)

----------------------------------------------------------------------------
(* Scoring *)

\* the compute calls made so far
Scored == { scored[k] : k \in 1..Len(scored) }

\* the engine's configuration without the custom rules that raise
WithoutRaising(cfg) ==
    [cfg EXCEPT !.custom_rules = SelectSeq(@, LAMBDA rule : ~rule.raises)]

\* C22: compute returns an integer in [0, 100] for every record, reference
\* time, weights and custom rules, whatever bonus the rules return; a rule that
\* raises contributes 0, the other rules and the base score still apply.
C22_Bounded ==
    \A e \in Scored :
       /\ e.ret \in 0..100
       /\ e.ret = compute(e.memory, WithoutRaising(config.scoring), e.now)

\* an engine with a rule that raises between a rule that returns -1000 and a
\* rule that returns 1030 has scored two records: one got its base score plus
\* 30, the other 100 where base score plus bonus is above 100
C22_Witness ==
    /\ \E k \in 1..Len(config.scoring.custom_rules) : config.scoring.custom_rules[k].raises
    /\ \E e \in Scored :
          /\ e.ret < 100
          /\ e.ret = compute(e.memory, [config.scoring EXCEPT !.custom_rules = <<>>],
                             e.now) + 30
    /\ \E e \in Scored :
          /\ e.ret = 100
          /\ compute_unclamped(e.memory, config.scoring, e.now) > 100

C24_AsClaimed ==
    \A e \in Scored :
       LET cfg == config.scoring
           recency == recency_norm(e.memory, cfg, e.now)
       IN  /\ Age(e.memory, e.now) = 0 => recency[1] = recency[2]
           /\ Age(e.memory, e.now) > cfg.decay_days =>
                 /\ recency[1] = 0
                 /\ (cfg.importance_weight = 0 /\ cfg.repetition_weight = 0
                        /\ cfg.custom_rules = <<>>) => e.ret = 0

----------------------------------------------------------------------------
(* Summarizer *)

\* C25 as claimed: summarize(text, target_chars) never returns more than
\* target_chars characters: the text unchanged when it already fits, the first
\* sentence when that sentence with its period fits within target_chars, and
\* otherwise a truncation of at most target_chars characters.
C25_AsClaimed ==
    last.op = "summarize" =>
       LET text == last.text
           target_chars == last.target_chars
           period == Find(text, ".")
       IN  /\ Len(last.ret) <= target_chars
           /\ IF Len(text) <= target_chars THEN last.ret = text
              ELSE IF 0 < period /\ period + 1 <= target_chars
                   THEN last.ret = Take(text, period + 1)
                   ELSE last.ret = Trim(text, target_chars)

----------------------------------------------------------------------------
(* Tiering of concurrent executions *)

\* C26: under any interleaving of two concurrent executions of run, each
\* selecting its migration batch before or after the other writes, no record's
\* tier is ever set to a tier earlier than its current one and no record skips
\* a tier.
C26_ConcurrentMonotonicTiering ==
    [][ \A i \in 1..Len(memories) :
           \/ memories'[i].tier = memories[i].tier
           \/ TierIndex(memories'[i].tier) = TierIndex(memories[i].tier) + 1
      ]_vars

\* both executions are between find_older_than and update_tier for the same
\* tier with the same record in their batches, or one is and the other has
\* already moved the record of its batch
C26_Witness ==
    /\ running[1].pc = "update_tier"
    /\ \E k \in 1..Len(running[1].records) :
          /\ running[1].records[k] \in running[2].moved
          /\ memories[running[1].records[k]].tier = running[1].target_tier
          /\ InFlight(2)

\* C27: one execution of run advances a record by at most one tier: a record
\* the execution has moved into a tier is in no later batch of the same
\* execution.
C27_OneTierPerRun ==
    \A p \in Callers :
       running[p].pc = "update_tier" =>
          \A k \in 1..Len(running[p].records) : running[p].records[k] \notin running[p].moved

\* an execution that moved a record from the first tier to the second has
\* passed the migrate step of the second tier, and the record is still in the
\* second tier
C27_Witness ==
    \E p \in Callers, i \in 1..Len(memories) :
       /\ running[p].pc = "step"
       /\ running[p].step > 4
       /\ i \in running[p].moved
       /\ memories[i].tier = "mid_term"
       /\ running[3 - p].pc = "idle"

----------------------------------------------------------------------------
(* Thread aggregates *)

IsAggregate(r) == r.metadata.kind = "thread_summary"

\* C28 as claimed: an aggregate record made by thread aggregation is never
\* trimmed, summarized or marked summarized by a later policy step or a later
\* run: it keeps its content and stays un-summarized, so default searches
\* still return it after its members have been hidden.
C28_AsClaimed ==
    [][ last'.op = "run" =>
          \A i \in 1..Len(memories) :
             IsAggregate(memories[i]) =>
                /\ memories'[i].content = memories[i].content
                /\ memories'[i].summarized = 0
      ]_vars

\* the rows that the step from memories to memories' marked summarized in
\* thread th, in storage order
MarkedIn(th) ==
    SelectSeq(Ids(memories), LAMBDA i :
        /\ memories[i].thread_id = th
        /\ memories[i].summarized = 0
        /\ memories'[i].summarized = 1)

\* C29 as claimed: the content of a thread aggregate is built only from records
\* of the owner under which the aggregate is stored, and only that owner's
\* records are marked summarized for it; records of two owners that use the
\* same thread id are never combined.
C29_AsClaimed ==
    [][ (/\ last'.op = "run"
         /\ Len(memories') = Len(memories) + 1
         /\ IsAggregate(memories'[Len(memories')])) =>
          LET aggregate == memories'[Len(memories')]
              marked == MarkedIn(aggregate.thread_id)
              own == SelectSeq(marked, LAMBDA i : memories[i].user_id = aggregate.user_id)
          IN  /\ marked = own
              /\ aggregate.content = Summarize(JoinContents(memories', own, 1),
                                               THREAD_SUMMARY_MAX_CHARS)
      ]_vars

----------------------------------------------------------------------------
(* Owner isolation of retrieval *)

\* the owners of the records the last search returned
ResultOwners == { memories[id].user_id : id \in Results }

\* C30 as claimed: for the scopes thread, topic and user all records of one
\* search result belong to a single owner, whatever the arguments, also when
\* no owner is passed (None or the empty string); a result with records of
\* several owners occurs only with scope = 'global'.
C30_AsClaimed ==
    Searched =>
       /\ last.args.scope \in {"thread", "topic", "user"} => Cardinality(ResultOwners) <= 1
       /\ Cardinality(ResultOwners) > 1 => last.args.scope = "global"

====
